---------------------------- MODULE Spec2Model ----------------------------
(***************************************************************************)
(* pf-verify: the skeleton receipt verifier of src/src/pf_verify/cli.py.   *)
(*                                                                         *)
(* One run of main() is a state machine over the command line, the two     *)
(* files it reads and the locals of main.  JSON documents are tagged       *)
(* records; Python strings are TLA+ strings, so that startswith, repr and  *)
(* the f-strings of the error messages are computed, not assumed.          *)
(* An exception that main does not catch ends the run in pc = "raised",    *)
(* with the traceback the interpreter prints on stderr.                    *)
(***************************************************************************)
EXTENDS Integers, Sequences, FiniteSets, TLC

VARIABLES
    args,       \* argparse result: [receipt, policy, format]
    fs,         \* the environment: [receipt, policy, yaml, script]
    pc,         \* position in main
    receipt,    \* main's local `receipt` (a JSON value) once loaded
    missing,    \* main's local `missing`
    problems,   \* main's local `problems`
    errors,     \* main's local `errors`
    warnings,   \* main's local `warnings`
    passed,     \* main's local `passed`
    policy,     \* main's local `_`, the loaded policy
    stdout,     \* lines printed to stdout
    stderr,     \* lines printed to stderr
    status,     \* exit status of the process, NotExited while running
    exc,        \* the exception that ended the run, if any
    calls       \* the helpers main has called, in order

vars == <<args, fs, pc, receipt, missing, problems, errors, warnings, passed,
          policy, stdout, stderr, status, exc, calls>>

-----------------------------------------------------------------------------
(* Bounds of the explored inputs. *)

\* longest signatures sequence explored
MaxSigs == 2

\* longest mirror_urls sequence explored
MaxMirrors == 2

-----------------------------------------------------------------------------
(* Module constants of cli.py. *)

REQUIRED_FIELDS ==
    << "id", "ts", "subject", "input_hash", "output_hash",
       "env", "merkle", "tsa", "transparency", "signatures" >>

PLACEHOLDER_URL_PREFIXES ==
    << "https://example.invalid",
       "https://rekor.example.invalid",
       "tsa://rfc3161.example.invalid" >>

PLACEHOLDER_KMS_PREFIXES == << "kms+example://" >>

-----------------------------------------------------------------------------
(* JSON values as json.load returns them. A dict keeps its keys in         *)
(* insertion order, as a Python dict does.                                 *)

JNull == [t |-> "null"]
JBool(b) == [t |-> "bool", b |-> b]
JNum(n) == [t |-> "num", n |-> n]
JStr(s) == [t |-> "str", s |-> s]
JList(items) == [t |-> "list", items |-> items]
JDict(pairs) == [t |-> "dict", pairs |-> pairs]

\* Results of an evaluation that may raise.  An exception carries its
\* class, the qualified class name and the first line of the message the
\* traceback shows, the further lines of a message of several lines, the place in cli.py that raised it, and
\* the traceback lines of the library frames below that place.
Ok(v) == [ok |-> TRUE, val |-> v]
Raise(e, msg, at) ==
    [ok |-> FALSE, exc |-> e, shown |-> e, msg |-> msg, tail |-> << >>,
     at |-> at, lib |-> << >>]

\* an exception of a library call made at the place `at` of cli.py
RaiseFrom(err, at) == [err EXCEPT !.at = at]

-----------------------------------------------------------------------------
(* The places of cli.py an exception passes: line number, function, the    *)
(* source line and the marks CPython 3.11 prints under it.                 *)

\* line 50, `key not in receipt`
Site50 ==
    [line |-> 50, func |-> "_check_required_fields",
     src  |-> "if key not in receipt:",
     mark |-> "   ^^^^^^^^^^^^^^^^^^"]

\* line 66, `receipt.get`
Site66 ==
    [line |-> 66, func |-> "_enforce_placeholders",
     src  |-> "trans = receipt.get(\"transparency\", {})",
     mark |-> "        ^^^^^^^^^^^"]

\* line 67, the first `trans.get`
Site67Get ==
    [line |-> 67, func |-> "_enforce_placeholders",
     src  |-> "url = trans.get(\"rekor_url\") or trans.get(\"mirror_urls\", [None])[0]",
     mark |-> "      ^^^^^^^^^"]

\* line 67, the subscript `[0]`
Site67Index ==
    [line |-> 67, func |-> "_enforce_placeholders",
     src  |-> "url = trans.get(\"rekor_url\") or trans.get(\"mirror_urls\", [None])[0]",
     mark |-> "                                ~~~~~~~~~~~~~~~~~~~~~~~~~~~~~~~~^^^"]

\* line 74, `enumerate(...)`
Site74 ==
    [line |-> 74, func |-> "_enforce_placeholders",
     src  |-> "for i, sig in enumerate(receipt.get(\"signatures\", [])):",
     mark |-> "              ^^^^^^^^^^^^^^^^^^^^^^^^^^^^^^^^^^^^^^^^"]

\* line 75, `sig.get`
Site75 ==
    [line |-> 75, func |-> "_enforce_placeholders",
     src  |-> "signer = sig.get(\"signer\", \"\")",
     mark |-> "         ^^^^^^^"]

\* line 36, `path.open`
Site36 ==
    [line |-> 36, func |-> "_load_json",
     src  |-> "with path.open(\"r\", encoding=\"utf-8\") as f:",
     mark |-> "     ^^^^^^^^^^^^^^^^^^^^^^^^^^^^^^^^"]

\* line 37, `json.load(f)`
Site37 ==
    [line |-> 37, func |-> "_load_json",
     src  |-> "return json.load(f)",
     mark |-> "       ^^^^^^^^^^^^"]

\* line 42, `path.open`
Site42 ==
    [line |-> 42, func |-> "_load_yaml",
     src  |-> "with path.open(\"r\", encoding=\"utf-8\") as f:",
     mark |-> "     ^^^^^^^^^^^^^^^^^^^^^^^^^^^^^^^^"]

\* line 43, `yaml.safe_load(f)`
Site43 ==
    [line |-> 43, func |-> "_load_yaml",
     src  |-> "return yaml.safe_load(f) or {}",
     mark |-> "       ^^^^^^^^^^^^^^^^^"]

\* line 138, the call of _load_yaml
Site138 ==
    [line |-> 138, func |-> "main",
     src  |-> "_ = _load_yaml(Path(args.policy))",
     mark |-> "    ^^^^^^^^^^^^^^^^^^^^^^^^^^^^^"]

\* line 144, the call of _check_required_fields
Site144 ==
    [line |-> 144, func |-> "main",
     src  |-> "missing = _check_required_fields(receipt)",
     mark |-> "          ^^^^^^^^^^^^^^^^^^^^^^^^^^^^^^^"]

\* line 149, the call of _enforce_placeholders
Site149 ==
    [line |-> 149, func |-> "main",
     src  |-> "problems = _enforce_placeholders(receipt)",
     mark |-> "           ^^^^^^^^^^^^^^^^^^^^^^^^^^^^^^"]

\* line 163, the call of main
Site163 ==
    [line |-> 163, func |-> "<module>",
     src  |-> "raise SystemExit(main())",
     mark |-> "                 ^^^^^^"]

\* type(v).__name__
TypeName(v) ==
    CASE v.t = "null" -> "NoneType"
      [] v.t = "bool" -> "bool"
      [] v.t = "num"  -> "int"
      [] v.t = "str"  -> "str"
      [] v.t = "list" -> "list"
      [] v.t = "dict" -> "dict"

\* v.get(...) on a value that is not a dict
NoGet(v, at) ==
    Raise("AttributeError", "'" \o TypeName(v) \o "' object has no attribute 'get'", at)

\* str.startswith(p)
StartsWith(val, p) ==
    /\ Len(val) >= Len(p)
    /\ SubSeq(val, 1, Len(p)) = p

\* `sub in s` for two Python strings
StrContains(s, sub) ==
    \E i \in 1..(Len(s) - Len(sub) + 1) : SubSeq(s, i, i + Len(sub) - 1) = sub

\* repr() of a str that holds no quote, backslash or non-printable character
Repr(s) == "'" \o s \o "'"

\* str() of a non-negative int
RECURSIVE IntStr(_)
IntStr(i) ==
    LET digit(d) == << "0", "1", "2", "3", "4", "5", "6", "7", "8", "9" >>[d + 1]
    IN  IF i < 10 THEN digit(i) ELSE IntStr(i \div 10) \o digit(i % 10)

\* sep.join(items) for a sequence of strings
RECURSIVE Join(_, _)
Join(items, sep) ==
    IF items = << >> THEN ""
    ELSE IF Len(items) = 1 THEN items[1]
    ELSE items[1] \o sep \o Join(Tail(items), sep)

\* bool(v): the truth value the `or` of line 67 tests
Truthy(v) ==
    CASE v.t = "null" -> FALSE
      [] v.t = "bool" -> v.b
      [] v.t = "num"  -> v.n # 0
      [] v.t = "str"  -> Len(v.s) > 0
      [] v.t = "list" -> Len(v.items) > 0
      [] v.t = "dict" -> Len(v.pairs) > 0

HasKey(d, k) == \E i \in 1..Len(d.pairs) : d.pairs[i][1] = k

\* dict.get(k, default)
Get(d, k, default) ==
    IF HasKey(d, k)
    THEN d.pairs[CHOOSE i \in 1..Len(d.pairs) : d.pairs[i][1] = k][2]
    ELSE default

\* `key in receipt` (line 50) for whatever json.load returned
KeyIn(key, r) ==
    CASE r.t = "dict" -> Ok(HasKey(r, key))
      [] r.t = "list" -> Ok(\E i \in 1..Len(r.items) : r.items[i] = JStr(key))
      [] r.t = "str"  -> Ok(StrContains(r.s, key))
      [] OTHER        -> Raise("TypeError",
                               "argument of type '" \o TypeName(r) \o "' is not iterable",
                               Site50)

\* v[0] (line 67)
Index0(v) ==
    CASE v.t = "list" -> IF v.items = << >>
                         THEN Raise("IndexError", "list index out of range", Site67Index)
                         ELSE Ok(v.items[1])
      [] v.t = "str"  -> IF v.s = ""
                         THEN Raise("IndexError", "string index out of range", Site67Index)
                         ELSE Ok(JStr(SubSeq(v.s, 1, 1)))
      [] v.t = "dict" -> Raise("KeyError", "0", Site67Index)
      [] OTHER        -> Raise("TypeError",
                               "'" \o TypeName(v) \o "' object is not subscriptable",
                               Site67Index)

\* the elements enumerate() walks (line 74)
Iterate(v) ==
    CASE v.t = "list" -> Ok(v.items)
      [] v.t = "str"  -> Ok([i \in 1..Len(v.s) |-> JStr(SubSeq(v.s, i, i))])
      [] v.t = "dict" -> Ok([i \in 1..Len(v.pairs) |-> JStr(v.pairs[i][1])])
      [] OTHER        -> Raise("TypeError",
                               "'" \o TypeName(v) \o "' object is not iterable",
                               Site74)

-----------------------------------------------------------------------------
(* The two checks. *)

\* the loop of lines 48-52 from REQUIRED_FIELDS[i] on, `acc` being `missing`
RECURSIVE CheckFrom(_, _, _)
CheckFrom(r, i, acc) ==
    IF i > Len(REQUIRED_FIELDS) THEN Ok(acc)
    ELSE LET key == REQUIRED_FIELDS[i]
             present == KeyIn(key, r)
         IN  IF ~present.ok THEN present
             ELSE CheckFrom(r, i + 1, IF present.val THEN acc ELSE Append(acc, key))

\* Mutant: `if not receipt.get(key)` in place of `if key not in receipt`.
_check_required_fields_falsy(r) ==
    IF r.t # "dict" THEN NoGet(r, Site50)
    ELSE Ok(SelectSeq(REQUIRED_FIELDS, LAMBDA key : ~Truthy(Get(r, key, JNull))))

_check_required_fields(r) == CheckFrom(r, 1, << >>)

\* Mutant: only the first allow-listed prefix is tried.
is_placeholder_url_first(val) == StartsWith(val, PLACEHOLDER_URL_PREFIXES[1])

is_placeholder_url(val) ==
    \E i \in 1..Len(PLACEHOLDER_URL_PREFIXES) : StartsWith(val, PLACEHOLDER_URL_PREFIXES[i])

is_placeholder_kms(val) ==
    \E i \in 1..Len(PLACEHOLDER_KMS_PREFIXES) : StartsWith(val, PLACEHOLDER_KMS_PREFIXES[i])

UrlMessage(s) == "transparency URL must use placeholder domain: " \o Repr(s)

SignerMessage(i, s) ==
    "signatures[" \o IntStr(i) \o "].signer must use placeholder KMS: " \o Repr(s)

\* line 67: trans.get("rekor_url") or trans.get("mirror_urls", [None])[0]
ResolveUrl(trans) ==
    LET rekor == Get(trans, "rekor_url", JNull)
    IN  IF Truthy(rekor) THEN Ok(rekor)
        ELSE Index0(Get(trans, "mirror_urls", JList(<< JNull >>)))

\* Mutant: `not (isinstance(url, str) and is_placeholder_url(url))`.
UrlProblemsUntyped(url) ==
    IF url.t = "str" /\ is_placeholder_url(url.s)
    THEN << >>
    ELSE << UrlMessage(IF url.t = "str" THEN url.s ELSE "None") >>

\* lines 68-69
UrlProblems(url) ==
    IF url.t = "str" /\ ~is_placeholder_url(url.s)
    THEN << UrlMessage(url.s) >>
    ELSE << >>

\* lines 76-77 for the entry at 0-based index i
SignerProblems(i, signer) ==
    IF signer.t = "str" /\ ~is_placeholder_kms(signer.s)
    THEN << SignerMessage(i, signer.s) >>
    ELSE << >>

\* the loop of lines 74-77 from the k-th element on, `acc` being `problems`
RECURSIVE SignerLoop(_, _, _)
SignerLoop(sigs, k, acc) ==
    IF k > Len(sigs) THEN Ok(acc)
    ELSE LET sig == sigs[k]
         IN  IF sig.t # "dict" THEN NoGet(sig, Site75)
             ELSE SignerLoop(sigs, k + 1,
                             acc \o SignerProblems(k - 1, Get(sig, "signer", JStr(""))))

_enforce_placeholders(r) ==
    IF r.t # "dict" THEN NoGet(r, Site66)
    ELSE LET trans == Get(r, "transparency", JDict(<< >>))
         IN  IF trans.t # "dict" THEN NoGet(trans, Site67Get)
             ELSE LET url == ResolveUrl(trans)
                  IN  IF ~url.ok THEN url
                      ELSE LET sigs == Iterate(Get(r, "signatures", JList(<< >>)))
                           IN  IF ~sigs.ok THEN sigs
                               ELSE SignerLoop(sigs.val, 1, UrlProblems(url.val))

-----------------------------------------------------------------------------
(* The reporters: the lines each prints. *)

Bullets(items) == [i \in 1..Len(items) |-> "- " \o items[i]]

\* The two headings start with U+2705 and U+274C in the source; the marks
\* are spelled out here.
_print_markdown(p, errs, warn) ==
    << IF p THEN "## (U+2705) OEP-288 Skeleton Verification Passed"
            ELSE "## (U+274C) OEP-288 Skeleton Verification Failed",
       "" >>
    \o (IF errs # << >> THEN << "### Errors" >> \o Bullets(errs) \o << "" >> ELSE << >>)
    \o (IF warn # << >> THEN << "### Warnings" >> \o Bullets(warn) \o << "" >> ELSE << >>)

\* json.dumps of a str that needs no escaping
JsonStr(s) == "\"" \o s \o "\""

\* json.dumps(..., indent=2) of one member holding a list of str
JsonMember(name, items, comma) ==
    IF items = << >> THEN << "  " \o JsonStr(name) \o ": []" \o comma >>
    ELSE << "  " \o JsonStr(name) \o ": [" >>
         \o [i \in 1..Len(items) |->
                "    " \o JsonStr(items[i]) \o (IF i < Len(items) THEN "," ELSE "")]
         \o << "  ]" \o comma >>

_print_json(p, errs, warn) ==
    << "{", "  \"passed\": " \o (IF p THEN "true" ELSE "false") \o "," >>
    \o JsonMember("errors", errs, ",")
    \o JsonMember("warnings", warn, "")
    \o << "}" >>

-----------------------------------------------------------------------------
(* The environment of a run. *)

NotExited == -1
NoValue == [t |-> "unset"]
NoException == [type |-> "", in |-> "", msg |-> ""]
NoPolicy == ""

\* the pieces of s between its slashes, `cur` being the piece under way
RECURSIVE SplitSlash(_, _, _)
SplitSlash(s, cur, acc) ==
    IF s = "" THEN Append(acc, cur)
    ELSE IF SubSeq(s, 1, 1) = "/"
    THEN SplitSlash(SubSeq(s, 2, Len(s)), "", Append(acc, cur))
    ELSE SplitSlash(SubSeq(s, 2, Len(s)), cur \o SubSeq(s, 1, 1), acc)

\* the number of slashes s starts with
RECURSIVE LeadingSlashes(_)
LeadingSlashes(s) ==
    IF s # "" /\ SubSeq(s, 1, 1) = "/" THEN 1 + LeadingSlashes(SubSeq(s, 2, Len(s))) ELSE 0

\* str(Path(s)) on a POSIX system: empty and "." components are dropped,
\* ".." is kept, exactly two leading slashes are kept and any other number
\* of them is one, and the empty path is "."
PathStr(s) ==
    LET parts == SelectSeq(SplitSlash(s, "", << >>), LAMBDA c : c # "" /\ c # ".")
        n == LeadingSlashes(s)
        root == IF n = 0 THEN "" ELSE IF n = 2 THEN "//" ELSE "/"
        body == root \o Join(parts, "/")
    IN  IF body = "" THEN "." ELSE body

\* the traceback lines of Path.open in pathlib.py of CPython 3.11
PathlibOpen ==
    << "  File \"/usr/local/lib/python3.11/pathlib.py\", line 1044, in open",
       "    return io.open(self, mode, buffering, encoding, errors, newline)",
       "           ^^^^^^^^^^^^^^^^^^^^^^^^^^^^^^^^^^^^^^^^^^^^^^^^^^^^^^^^^" >>

\* path.open("r", ...) of a path that does not exist
OpenError(path) ==
    [ok |-> FALSE, exc |-> "FileNotFoundError", shown |-> "FileNotFoundError",
     msg |-> "[Errno 2] No such file or directory: " \o Repr(PathStr(path)),
     tail |-> << >>, at |-> Site36, lib |-> PathlibOpen]

\* _load_json (lines 35-37): open, then what json.load gives for the file
_load_json(path, file) ==
    IF ~file.exists THEN RaiseFrom(OpenError(path), Site36)
    ELSE IF file.load.ok THEN file.load
    ELSE RaiseFrom(file.load, Site37)

\* _load_yaml (lines 40-44): a Path is always true, so the file is opened
\* and parsed whenever PyYAML is importable; an empty or null document, or
\* any other false value, becomes {}
_load_yaml(path, file, yaml) ==
    IF ~yaml THEN Ok(JDict(<< >>))
    ELSE IF ~file.exists THEN RaiseFrom(OpenError(path), Site42)
    ELSE IF ~file.load.ok THEN RaiseFrom(file.load, Site43)
    ELSE Ok(IF Truthy(file.load.val) THEN file.load.val ELSE JDict(<< >>))

\* one frame of a traceback
FrameLines(script, site) ==
    << "  File \"" \o script \o "\", line " \o IntStr(site.line) \o ", in " \o site.func,
       "    " \o site.src,
       "    " \o site.mark >>

\* what the interpreter prints for an exception that leaves main, called
\* at `mainSite`, through line 163
Traceback(script, mainSite, err) ==
    << "Traceback (most recent call last):" >>
    \o FrameLines(script, Site163)
    \o FrameLines(script, mainSite)
    \o FrameLines(script, err.at)
    \o err.lib
    \o << err.shown \o ": " \o err.msg >>
    \o err.tail

-----------------------------------------------------------------------------
(* The inputs explored: receipt documents, file states and command lines.  *)

Absent == [t |-> "absent"]

Reverse(seq) == [i \in 1..Len(seq) |-> seq[Len(seq) + 1 - i]]

\* all sequences over S of length at most n
RECURSIVE SeqsUpTo(_, _)
SeqsUpTo(S, n) ==
    IF n = 0 THEN {<< >>}
    ELSE LET shorter == SeqsUpTo(S, n - 1)
         IN  shorter \cup {Append(q, x) : q \in {r \in shorter : Len(r) = n - 1}, x \in S}

GoodUrl == "https://rekor.example.invalid/v1"
BadUrl == "https://real-rekor.sigstore.dev"
GoodSigner == "kms+example://key1"
BadSigner == "arn:aws:kms:us-east-1:key/abc"

\* a dict from the pairs whose value is not Absent
DictOf(pairs) == JDict(SelectSeq(pairs, LAMBDA kv : kv[2] # Absent))

RekorValues ==
    { Absent, JStr(GoodUrl), JStr(BadUrl), JStr(""), JStr("https://example.invali"),
      JNull, JNum(0), JNum(5) }

MirrorElems == { JStr("tsa://rfc3161.example.invalid"), JStr("http://mirror.real"), JStr(""), JNum(7) }

MirrorValues ==
    {Absent} \cup {JList(q) : q \in SeqsUpTo(MirrorElems, MaxMirrors)}
    \cup { JNull, JNum(3), JStr(""), JStr("https://example.invalid/m"), JDict(<< >>) }

TransValues ==
    {DictOf(<< <<"rekor_url", r>>, <<"mirror_urls", m>> >>) : r \in RekorValues, m \in MirrorValues}
    \cup { Absent, JNull, JNum(1), JStr(GoodUrl), JList(<< >>) }

SigElems ==
    { JDict(<< <<"signer", JStr(GoodSigner)>> >>),
      JDict(<< <<"alg", JStr("ed25519")>>, <<"signer", JStr(BadSigner)>> >>),
      JDict(<< <<"alg", JStr("ed25519")>> >>),
      JDict(<< <<"signer", JStr("")>> >>),
      JDict(<< <<"signer", JNum(5)>> >>),
      JNum(5) }

SigValues ==
    {Absent} \cup {JList(q) : q \in SeqsUpTo(SigElems, MaxSigs)}
    \cup { JNull, JNum(1), JStr(""), JStr("ab"), JDict(<< >>), JDict(<< <<"signer", JStr(GoodSigner)>> >>) }

SmallTrans ==
    { Absent,
      DictOf(<< <<"rekor_url", JStr(GoodUrl)>> >>),
      DictOf(<< <<"rekor_url", JStr(BadUrl)>> >>),
      DictOf(<< <<"mirror_urls", JList(<< >>)>> >>) }

SmallSigs ==
    { Absent,
      JList(<< JDict(<< <<"signer", JStr(GoodSigner)>> >>) >>),
      JList(<< JDict(<< <<"signer", JNum(5)>> >>),
               JDict(<< <<"signer", JStr(BadSigner)>> >>) >>),
      JList(<< JDict(<< <<"signer", JStr(BadSigner)>> >>),
               JDict(<< <<"signer", JStr(GoodSigner)>> >>),
               JDict(<< >>) >>) }

\* the required fields other than transparency and signatures, and a key
\* that is not required
PlainFields == { "id", "ts", "subject", "input_hash", "output_hash", "env", "merkle", "tsa" }
ExtraKey == "note"

PlainValue(k) ==
    CASE k = "env" -> JNull
      [] k = "ts"  -> JNum(0)
      [] k = "merkle" -> JDict(<< >>)
      [] OTHER     -> JStr("v")

\* A receipt holding the keys `keys` besides transparency and signatures,
\* written in the canonical order or in its reverse.
MkReceipt(keys, reversed, trans, sigs) ==
    LET order == REQUIRED_FIELDS \o << ExtraKey >>
        value(k) == CASE k = "transparency" -> trans
                      [] k = "signatures"   -> sigs
                      [] OTHER -> IF k \in keys THEN PlainValue(k) ELSE Absent
        pairs == [i \in 1..Len(order) |-> << order[i], value(order[i]) >>]
    IN  DictOf(IF reversed THEN Reverse(pairs) ELSE pairs)

SmallKeys == { PlainFields, PlainFields \ {"merkle", "tsa"} }

KeyFamily ==
    { MkReceipt(keys, rev, tr, sg) :
        keys \in SUBSET (PlainFields \cup {ExtraKey}), rev \in BOOLEAN,
        tr \in { Absent, DictOf(<< <<"rekor_url", JStr(BadUrl)>> >>) },
        sg \in { Absent, JList(<< JDict(<< <<"signer", JStr(GoodSigner)>> >>) >>) } }

TransFamily ==
    { MkReceipt(keys, FALSE, tr, sg) : keys \in SmallKeys, tr \in TransValues, sg \in SmallSigs }

SigFamily ==
    { MkReceipt(keys, FALSE, tr, sg) : keys \in SmallKeys, tr \in SmallTrans, sg \in SigValues }

\* documents that are not a JSON object
NonObjects ==
    { JNull, JBool(TRUE), JNum(7), JStr("id"), JList(<< >>),
      JList([i \in 1..Len(REQUIRED_FIELDS) |-> JStr(REQUIRED_FIELDS[i])]) }

Receipts == KeyFamily \cup TransFamily \cup SigFamily \cup NonObjects

ReceiptPath == "receipt.json"
PolicyPath == "policy.yml"
ScriptPath == "/opt/pf-verify/src/pf_verify/cli.py"

\* spellings of the two paths that pathlib writes differently
ReceiptPaths == { ReceiptPath, "./receipt.json", "a//b/../receipt.json" }
PolicyPaths == { PolicyPath, "./policy.yml" }

NoFile == [exists |-> FALSE]
FileWith(v) == [exists |-> TRUE, load |-> Ok(v)]

\* an empty file: what json.load raises on it.  main catches it and prints
\* the message only, so the library frames are left out.
BadJsonFile ==
    [exists |-> TRUE,
     load |-> [ok |-> FALSE, exc |-> "JSONDecodeError", shown |-> "json.decoder.JSONDecodeError",
               msg |-> "Expecting value: line 1 column 1 (char 0)", tail |-> << >>,
               at |-> Site37, lib |-> << >>]]

\* the traceback lines of PyYAML 6.0 under yaml.safe_load when the scanner
\* meets the second colon of `a: b: c`
YamlScannerFrames ==
    << "  File \"/usr/local/lib/python3.11/site-packages/yaml/__init__.py\", line 125, in safe_load",
       "    return load(stream, SafeLoader)",
       "           ^^^^^^^^^^^^^^^^^^^^^^^^",
       "  File \"/usr/local/lib/python3.11/site-packages/yaml/__init__.py\", line 81, in load",
       "    return loader.get_single_data()",
       "           ^^^^^^^^^^^^^^^^^^^^^^^^",
       "  File \"/usr/local/lib/python3.11/site-packages/yaml/constructor.py\", line 49, in get_single_data",
       "    node = self.get_single_node()",
       "           ^^^^^^^^^^^^^^^^^^^^^^",
       "  File \"/usr/local/lib/python3.11/site-packages/yaml/composer.py\", line 36, in get_single_node",
       "    document = self.compose_document()",
       "               ^^^^^^^^^^^^^^^^^^^^^^^",
       "  File \"/usr/local/lib/python3.11/site-packages/yaml/composer.py\", line 55, in compose_document",
       "    node = self.compose_node(None, None)",
       "           ^^^^^^^^^^^^^^^^^^^^^^^^^^^^^",
       "  File \"/usr/local/lib/python3.11/site-packages/yaml/composer.py\", line 84, in compose_node",
       "    node = self.compose_mapping_node(anchor)",
       "           ^^^^^^^^^^^^^^^^^^^^^^^^^^^^^^^^^",
       "  File \"/usr/local/lib/python3.11/site-packages/yaml/composer.py\", line 127, in compose_mapping_node",
       "    while not self.check_event(MappingEndEvent):",
       "              ^^^^^^^^^^^^^^^^^^^^^^^^^^^^^^^^^",
       "  File \"/usr/local/lib/python3.11/site-packages/yaml/parser.py\", line 98, in check_event",
       "    self.current_event = self.state()",
       "                         ^^^^^^^^^^^^",
       "  File \"/usr/local/lib/python3.11/site-packages/yaml/parser.py\", line 428, in parse_block_mapping_key",
       "    if self.check_token(KeyToken):",
       "       ^^^^^^^^^^^^^^^^^^^^^^^^^^",
       "  File \"/usr/local/lib/python3.11/site-packages/yaml/scanner.py\", line 116, in check_token",
       "    self.fetch_more_tokens()",
       "  File \"/usr/local/lib/python3.11/site-packages/yaml/scanner.py\", line 223, in fetch_more_tokens",
       "    return self.fetch_value()",
       "           ^^^^^^^^^^^^^^^^^^",
       "  File \"/usr/local/lib/python3.11/site-packages/yaml/scanner.py\", line 577, in fetch_value",
       "    raise ScannerError(None, None," >>

\* a policy file holding `a: b: c`: what yaml.safe_load raises on it
BadYamlFile ==
    [exists |-> TRUE,
     load |-> [ok |-> FALSE, exc |-> "ScannerError", shown |-> "yaml.scanner.ScannerError",
               msg |-> "mapping values are not allowed here",
               tail |-> << "  in \"policy.yml\", line 1, column 5" >>,
               at |-> Site43,
               lib |-> YamlScannerFrames]]

\* policy documents: a mapping, a sequence, and the empty document
PolicyFiles ==
    { NoFile, BadYamlFile,
      FileWith(JDict(<< <<"rules", JList(<< >>)>> >>)),
      FileWith(JList(<< JNum(1), JNum(2) >>)),
      FileWith(JNull) }

Formats == { "markdown", "json" }

\* runs without --policy over every receipt
ValidationInputs ==
    { [args |-> [receipt |-> ReceiptPath, policy |-> NoPolicy, format |-> f],
       fs |-> [receipt |-> FileWith(r), policy |-> NoFile, yaml |-> FALSE,
               script |-> ScriptPath]] :
        f \in Formats, r \in Receipts }

\* runs over every state of the two files, with a few receipts
FileInputs ==
    { [args |-> [receipt |-> rp, policy |-> p, format |-> f],
       fs |-> [receipt |-> file, policy |-> pf, yaml |-> y, script |-> ScriptPath]] :
        rp \in ReceiptPaths, p \in {NoPolicy} \cup PolicyPaths, f \in Formats,
        file \in { NoFile, BadJsonFile }
                 \cup { FileWith(MkReceipt(keys, FALSE, DictOf(<< <<"rekor_url", JStr(GoodUrl)>> >>), sg)) :
                          keys \in SmallKeys, sg \in SmallSigs },
        pf \in PolicyFiles, y \in BOOLEAN }

Inputs == ValidationInputs \cup FileInputs

-----------------------------------------------------------------------------
(* main, lines 111-159. *)

Init ==
    /\ \E in \in Inputs : args = in.args /\ fs = in.fs
    /\ pc = "start"
    /\ receipt = NoValue
    /\ missing = << >>
    /\ problems = << >>
    /\ errors = << >>
    /\ warnings = << >>
    /\ passed = FALSE
    /\ policy = NoValue
    /\ stdout = << >>
    /\ stderr = << >>
    /\ status = NotExited
    /\ exc = NoException
    /\ calls = << >>

\* Mutant: the message is printed without file=sys.stderr.
AbortToStdout(line) ==
    /\ stdout' = Append(stdout, line)
    /\ stderr' = stderr
    /\ status' = 1
    /\ pc' = "aborted"

\* `return 1` after one line on stderr (lines 124-125, 130-131, 136-137)
Abort(line) ==
    /\ stderr' = Append(stderr, line)
    /\ stdout' = stdout
    /\ status' = 1
    /\ pc' = "aborted"

\* An exception main does not catch leaves through line 163: the
\* interpreter prints the traceback and exits with status 1.
Uncaught(err, where, mainSite) ==
    /\ exc' = [type |-> err.exc, in |-> where, msg |-> Join(<< err.msg >> \o err.tail, "\n")]
    /\ stderr' = stderr \o Traceback(fs.script, mainSite, err)
    /\ status' = 1
    /\ pc' = "raised"

\* lines 122-125
CheckReceiptPath ==
    /\ pc = "start"
    /\ IF ~fs.receipt.exists
       THEN Abort("receipt not found: " \o PathStr(args.receipt))
       ELSE pc' = "load" /\ UNCHANGED <<stdout, stderr, status>>
    /\ UNCHANGED <<args, fs, receipt, missing, problems, errors, warnings, passed,
                   policy, exc, calls>>

\* lines 127-131
LoadReceipt ==
    /\ pc = "load"
    /\ calls' = Append(calls, "_load_json")
    /\ LET loaded == _load_json(args.receipt, fs.receipt)
       IN  IF loaded.ok
           THEN receipt' = loaded.val /\ pc' = "policy" /\ UNCHANGED <<stdout, stderr, status>>
           ELSE Abort("invalid JSON: " \o loaded.msg) /\ UNCHANGED receipt
    /\ UNCHANGED <<args, fs, missing, problems, errors, warnings, passed, policy, exc>>

\* lines 133-138
LoadPolicy ==
    /\ pc = "policy"
    /\ IF args.policy = NoPolicy
       THEN pc' = "fields" /\ UNCHANGED <<policy, stdout, stderr, status, exc, calls>>
       ELSE IF ~fs.policy.exists
       THEN Abort("policy not found: " \o args.policy) /\ UNCHANGED <<policy, exc, calls>>
       ELSE /\ calls' = Append(calls, "_load_yaml")
            /\ stdout' = stdout
            /\ LET loaded == _load_yaml(args.policy, fs.policy, fs.yaml)
               IN  IF loaded.ok
                   THEN /\ policy' = loaded.val
                        /\ pc' = "fields"
                        /\ UNCHANGED <<stderr, status, exc>>
                   ELSE Uncaught(loaded, "_load_yaml", Site138) /\ UNCHANGED policy
    /\ UNCHANGED <<args, fs, receipt, missing, problems, errors, warnings, passed>>

\* line 146
MissingMessage(m) == "missing required fields: " \o Join(m, ", ")

\* lines 140-146
CheckRequiredFields ==
    /\ pc = "fields"
    /\ calls' = Append(calls, "_check_required_fields")
    /\ LET res == _check_required_fields(receipt)
       IN  IF res.ok
           THEN /\ missing' = res.val
                /\ errors' = IF res.val # << >> THEN Append(errors, MissingMessage(res.val))
                                                ELSE errors
                /\ pc' = "placeholders"
                /\ UNCHANGED <<stderr, status, exc>>
           ELSE Uncaught(res, "_check_required_fields", Site144) /\ UNCHANGED <<missing, errors>>
    /\ UNCHANGED <<args, fs, receipt, problems, warnings, passed, policy, stdout>>

\* lines 148-150
EnforcePlaceholders ==
    /\ pc = "placeholders"
    /\ calls' = Append(calls, "_enforce_placeholders")
    /\ LET res == _enforce_placeholders(receipt)
       IN  IF res.ok
           THEN /\ problems' = res.val
                /\ errors' = errors \o res.val
                /\ pc' = "report"
                /\ UNCHANGED <<stderr, status, exc>>
           ELSE Uncaught(res, "_enforce_placeholders", Site149) /\ UNCHANGED <<problems, errors>>
    /\ UNCHANGED <<args, fs, receipt, missing, warnings, passed, policy, stdout>>

\* line 152
ComputePassed(errs) == Len(errs) = 0

\* Mutant: main returns 0 whatever it found.
ExitStatusZero(p) == 0

\* line 159
ExitStatus(p) == IF p THEN 0 ELSE 1

\* lines 152-159
Report ==
    /\ pc = "report"
    /\ passed' = ComputePassed(errors)
    /\ IF args.format = "json"
       THEN /\ stdout' = stdout \o _print_json(passed', errors, warnings)
            /\ calls' = Append(calls, "_print_json")
       ELSE /\ stdout' = stdout \o _print_markdown(passed', errors, warnings)
            /\ calls' = Append(calls, "_print_markdown")
    /\ status' = ExitStatus(passed')
    /\ pc' = "done"
    /\ UNCHANGED <<args, fs, receipt, missing, problems, errors, warnings, policy,
                   stderr, exc>>

Next ==
    \/ CheckReceiptPath
    \/ LoadReceipt
    \/ LoadPolicy
    \/ CheckRequiredFields
    \/ EnforcePlaceholders
    \/ Report

Spec == Init /\ [][Next]_vars

-----------------------------------------------------------------------------
(* Vocabulary of the properties. These definitions restate what the        *)
(* specification says of a receipt; none of them is used by the actions.   *)

RequiredSet == {REQUIRED_FIELDS[i] : i \in 1..Len(REQUIRED_FIELDS)}

Pos(f) == CHOOSE i \in 1..Len(REQUIRED_FIELDS) : REQUIRED_FIELDS[i] = f

KeySet(r) == {r.pairs[i][1] : i \in 1..Len(r.pairs)}

\* s = p followed by something
HasPrefix(s, p) == \E k \in 0..Len(s) : SubSeq(s, 1, k) = p

AllowedUrl(s) ==
    \/ HasPrefix(s, "https://example.invalid")
    \/ HasPrefix(s, "https://rekor.example.invalid")
    \/ HasPrefix(s, "tsa://rfc3161.example.invalid")

AllowedSigner(s) == HasPrefix(s, "kms+example://")

IsUrlMessage(m) == HasPrefix(m, "transparency URL must use placeholder domain: ")
IsSignerMessage(m) == HasPrefix(m, "signatures[")
IsMissingMessage(m) == HasPrefix(m, "missing required fields: ")
NamesUrl(m, s) == m = "transparency URL must use placeholder domain: '" \o s \o "'"
NamesIndex(m, i) == HasPrefix(m, "signatures[" \o IntStr(i) \o "].signer ")

Where(seq, P(_)) == {j \in 1..Len(seq) : P(seq[j])}

Loaded == receipt # NoValue
IsObject == Loaded /\ receipt.t = "dict"
Trans == Get(receipt, "transparency", Absent)
Sigs == Get(receipt, "signatures", Absent)

\* the transparency URL as the specification resolves it: rekor_url when
\* the key is there, else the first mirror, else none
SpecCandidate(tr) ==
    IF HasKey(tr, "rekor_url") THEN Get(tr, "rekor_url", Absent)
    ELSE LET m == Get(tr, "mirror_urls", Absent)
         IN  IF m.t = "list" /\ m.items # << >> THEN m.items[1] ELSE Absent

\* the shapes section 3 of the specification gives the two nested fields
TransShaped ==
    \/ Trans = Absent
    \/ /\ Trans.t = "dict"
       /\ Get(Trans, "rekor_url", JStr("")).t = "str"
       /\ Get(Trans, "mirror_urls", JList(<< >>)).t = "list"
SigsShaped ==
    \/ Sigs = Absent
    \/ Sigs.t = "list" /\ \A i \in 1..Len(Sigs.items) : Sigs.items[i].t = "dict"

\* positions of main
FieldsReturned ==
    \/ pc \in {"placeholders", "report", "done"}
    \/ pc = "raised" /\ exc.in = "_enforce_placeholders"
EnforcerReturned == pc \in {"report", "done"}
EnforcerRaised == pc = "raised" /\ exc.in = "_enforce_placeholders"
Terminal == pc \in {"done", "aborted", "raised"}

-----------------------------------------------------------------------------
(* Properties. *)

\* C1: once the field-presence check has run on a receipt mapping, `missing`
\* holds exactly the required fields that are not keys of the receipt, each
\* once and in the canonical order, whatever the key order and the extra
\* keys of the receipt; on a mapping the check never raises.
C1_MissingFieldsExact ==
    IsObject =>
        /\ ~(pc = "raised" /\ exc.in = "_check_required_fields")
        /\ FieldsReturned =>
            /\ {missing[i] : i \in 1..Len(missing)} = RequiredSet \ KeySet(receipt)
            /\ \A i, j \in 1..Len(missing) : i < j => Pos(missing[i]) < Pos(missing[j])

\* C1 witness: a receipt written in reverse order with an extra key first,
\* a null-valued env, and exactly merkle and tsa reported missing.
C1_Witness ==
    /\ IsObject /\ FieldsReturned
    /\ Len(receipt.pairs) > 0
    /\ receipt.pairs[1][1] = ExtraKey
    /\ receipt.pairs[Len(receipt.pairs)][1] = "id"
    /\ HasKey(receipt, "env")
    /\ missing = << "merkle", "tsa" >>

\* what the printed report says of passed
ReportSaysPassed ==
    IF args.format = "json" THEN stdout[2] = "  \"passed\": true,"
    ELSE stdout[1] = "## (U+2705) OEP-288 Skeleton Verification Passed"
ReportSaysFailed ==
    IF args.format = "json" THEN stdout[2] = "  \"passed\": false,"
    ELSE stdout[1] = "## (U+274C) OEP-288 Skeleton Verification Failed"

\* C2: in every run that has reported, passed is true exactly when errors is
\* empty, the report printed carries that value, the exit status is 0 when
\* passed and 1 otherwise; warnings is empty throughout, so it changes
\* neither.
C2_PassedIffNoErrors ==
    /\ warnings = << >>
    /\ pc = "done" =>
        /\ passed <=> (errors = << >>)
        /\ passed => ReportSaysPassed /\ status = 0
        /\ ~passed => ReportSaysFailed /\ status = 1

\* C2 witness: a failed run reported as JSON with exit status 1.
C2_Witness ==
    /\ pc = "done" /\ args.format = "json"
    /\ ~passed /\ Len(errors) >= 2 /\ status = 1

\* all ten required fields, and only allow-listed placeholder values
AllRequiredPresent == IsObject /\ RequiredSet \subseteq KeySet(receipt)
OnlyPlaceholders ==
    /\ Trans.t = "dict"
    /\ SpecCandidate(Trans).t = "str" /\ AllowedUrl(SpecCandidate(Trans).s)
    /\ Sigs.t = "list"
    /\ \A i \in 1..Len(Sigs.items) :
          /\ Sigs.items[i].t = "dict"
          /\ HasKey(Sigs.items[i], "signer")
          /\ Get(Sigs.items[i], "signer", Absent).t = "str"
          /\ AllowedSigner(Get(Sigs.items[i], "signer", Absent).s)

\* C3: a receipt with all ten required fields and only allow-listed
\* placeholder values raises nothing in the two checks, collects no error,
\* and once validated is reported passed with exit status 0.
C3_PlaceholdersPass ==
    (AllRequiredPresent /\ OnlyPlaceholders) =>
        /\ pc = "raised" => exc.in = "_load_yaml"
        /\ errors = << >>
        /\ pc = "done" => passed /\ status = 0 /\ ReportSaysPassed

\* C3 witness: such a receipt, its URL taken from rekor_url and two or more
\* signatures, has passed.
C3_Witness ==
    /\ pc = "done" /\ AllRequiredPresent /\ OnlyPlaceholders
    /\ HasKey(Trans, "rekor_url") /\ Len(Sigs.items) >= 2
    /\ passed /\ status = 0

\* C4: whenever the enforcer has returned on a receipt whose transparency
\* URL (rekor_url, or the first mirror when rekor_url is not given) is a
\* string without an allow-listed prefix, the empty string included,
\* problems holds exactly one transparency entry, it names that URL, and the
\* run exits with status 1.
C4_BadUrlFlaggedOnce ==
    (EnforcerReturned /\ IsObject /\ Trans.t = "dict"
        /\ SpecCandidate(Trans).t = "str" /\ ~AllowedUrl(SpecCandidate(Trans).s)) =>
        /\ Cardinality(Where(problems, IsUrlMessage)) = 1
        /\ \A j \in Where(problems, IsUrlMessage) : NamesUrl(problems[j], SpecCandidate(Trans).s)
        /\ pc = "done" => status = 1

\* C5: for every receipt whose nested fields have the shapes of section 3,
\* once the enforcer has run, every index whose signer is a string without
\* the KMS prefix, or is missing, has exactly one entry of problems naming
\* it, every index whose signer has the prefix has none, and the signer
\* entries come in increasing index order.
C5_SignerFlaggedPerIndex ==
    (IsObject /\ TransShaped /\ SigsShaped /\ Sigs # Absent
        /\ (EnforcerReturned \/ EnforcerRaised)) =>
        /\ \A i \in 1..Len(Sigs.items) :
              LET signer == Get(Sigs.items[i], "signer", JStr(""))
                  named == {j \in 1..Len(problems) : NamesIndex(problems[j], i - 1)}
              IN  signer.t = "str" =>
                      Cardinality(named) = IF AllowedSigner(signer.s) THEN 0 ELSE 1
        /\ \A j, k \in 1..Len(problems) : \A a, b \in 1..Len(Sigs.items) :
              (j < k /\ NamesIndex(problems[j], a - 1) /\ NamesIndex(problems[k], b - 1)) => a < b

\* the messages HardError runs write, in the order main tests for them
HardError ==
    \/ ~fs.receipt.exists
    \/ ~fs.receipt.load.ok
    \/ args.policy # NoPolicy /\ ~fs.policy.exists
\* the receipt path as the message is to show it
ShownReceiptPath ==
    CASE args.receipt = "./receipt.json" -> "receipt.json"
      [] args.receipt = "a//b/../receipt.json" -> "a/b/../receipt.json"
      [] OTHER -> args.receipt
HardErrorLine ==
    IF ~fs.receipt.exists THEN "receipt not found: " \o ShownReceiptPath
    ELSE IF ~fs.receipt.load.ok THEN "invalid JSON: " \o fs.receipt.load.msg
    ELSE "policy not found: " \o args.policy
ChecksCalled ==
    \E i \in 1..Len(calls) : calls[i] \in {"_check_required_fields", "_enforce_placeholders"}

\* C6: a run whose receipt path does not exist, whose receipt is not valid
\* JSON, or whose --policy path does not exist never runs either check and
\* never prints to stdout; it ends aborted, with exit status 1 and a single
\* line on stderr, which names the first of these three failures in that
\* order; and no other run aborts.
C6_HardErrorsAbort ==
    /\ HardError =>
        /\ pc \in {"start", "load", "policy", "aborted"}
        /\ ~ChecksCalled /\ stdout = << >> /\ errors = << >>
    /\ pc = "aborted" =>
        /\ HardError
        /\ status = 1
        /\ stderr = << HardErrorLine >>
    /\ pc # "aborted" /\ pc # "raised" => stderr = << >>

\* C6 witness: the receipt is not valid JSON and the policy path does not
\* exist either: the run has aborted on the decode failure.
C6_Witness ==
    /\ pc = "aborted"
    /\ fs.receipt.exists /\ ~fs.receipt.load.ok
    /\ args.policy # NoPolicy /\ ~fs.policy.exists
    /\ stderr = << "invalid JSON: Expecting value: line 1 column 1 (char 0)" >>
    /\ calls = << "_load_json" >>

\* an error is printed in the report
InReport(e) ==
    \E i \in 1..Len(stdout) :
        stdout[i] \in { "- " \o e, "    \"" \o e \o "\"", "    \"" \o e \o "\"," }

Rank(m) == IF IsMissingMessage(m) THEN 1 ELSE IF IsUrlMessage(m) THEN 2 ELSE 3

OffendingSigners ==
    IF Sigs = Absent THEN {}
    ELSE {i \in 1..Len(Sigs.items) :
            LET signer == Get(Sigs.items[i], "signer", JStr(""))
            IN  signer.t = "str" /\ ~AllowedSigner(signer.s)}

\* C7: for every parsed receipt whose nested fields have the shapes of
\* section 3, the run ends with a report, and its errors list holds one
\* combined entry for the missing fields iff a field is missing, then at
\* most one transparency entry, then one entry per offending signature, all
\* of them printed in that report.
C7_SoftErrorsAccumulate ==
    (IsObject /\ TransShaped /\ SigsShaped
        /\ pc \in {"done", "raised"} /\ exc.in # "_load_yaml") =>
        /\ pc = "done"
        /\ Cardinality(Where(errors, IsMissingMessage))
              = IF RequiredSet \subseteq KeySet(receipt) THEN 0 ELSE 1
        /\ Cardinality(Where(errors, IsUrlMessage)) <= 1
        /\ Cardinality(Where(errors, IsSignerMessage)) = Cardinality(OffendingSigners)
        /\ \A j, k \in 1..Len(errors) : j < k => Rank(errors[j]) <= Rank(errors[k])
        /\ \A j \in 1..Len(errors) : InReport(errors[j])

\* C8: on a receipt whose transparency is a mapping, with mirror_urls a
\* sequence when given, the enforcer returns, and its transparency entry is
\* decided by the candidate the specification resolves: rekor_url when that
\* key is present, else the first mirror, else none. No entry names another
\* value, and there is none when there is no candidate.
C8_CandidateResolution ==
    (IsObject /\ Trans.t = "dict" /\ SigsShaped
        /\ Get(Trans, "mirror_urls", JList(<< >>)).t = "list"
        /\ (EnforcerReturned \/ EnforcerRaised)) =>
        /\ EnforcerReturned
        /\ LET c == SpecCandidate(Trans)
           IN  \A j \in Where(problems, IsUrlMessage) : c.t = "str" /\ NamesUrl(problems[j], c.s)
        /\ (~HasKey(Trans, "rekor_url") /\ SpecCandidate(Trans).t = "str"
               /\ ~AllowedUrl(SpecCandidate(Trans).s))
              => Where(problems, IsUrlMessage) # {}

\* the candidate line 67 resolved, and the entries line 74 walked, in a run
\* whose enforcer returned
ResolvedUrl == ResolveUrl(IF Trans = Absent THEN JDict(<< >>) ELSE Trans).val
WalkedSigs == IF Sigs.t = "list" THEN Sigs.items ELSE << >>

\* the entries the string-typed signers from the k-th on call for
RECURSIVE StringSignerEntries(_, _)
StringSignerEntries(sigs, k) ==
    IF k > Len(sigs) THEN << >>
    ELSE LET signer == Get(sigs[k], "signer", JStr(""))
         IN  (IF signer.t = "str" /\ ~AllowedSigner(signer.s)
              THEN << "signatures[" \o IntStr(k - 1) \o "].signer must use placeholder KMS: '"
                        \o signer.s \o "'" >>
              ELSE << >>)
             \o StringSignerEntries(sigs, k + 1)

\* C9: values that are not strings are skipped in silence. When the resolved
\* candidate is not a string problems holds no transparency entry; an index
\* whose signer is present and not a string has no entry; and problems is
\* exactly what the string-typed candidate and signers call for, so a
\* non-string value changes no entry of another field.  A run whose
\* enforcer raised added nothing to errors.
C9_NonStringsSkipped ==
    IsObject =>
        /\ EnforcerRaised => problems = << >> /\ \A j \in 1..Len(errors) : Rank(errors[j]) = 1
        /\ EnforcerReturned =>
            /\ ResolvedUrl.t # "str" => Where(problems, IsUrlMessage) = {}
            /\ \A i \in 1..Len(WalkedSigs) :
                  (HasKey(WalkedSigs[i], "signer") /\ Get(WalkedSigs[i], "signer", Absent).t # "str")
                      => ~\E j \in 1..Len(problems) : NamesIndex(problems[j], i - 1)
            /\ problems =
                  (IF ResolvedUrl.t = "str" /\ ~AllowedUrl(ResolvedUrl.s)
                   THEN << "transparency URL must use placeholder domain: '" \o ResolvedUrl.s \o "'" >>
                   ELSE << >>)
                  \o StringSignerEntries(WalkedSigs, 1)

\* C9 witness: rekor_url is the number 5, the first signer is a number and
\* the second a real key: the only entry is the one of index 1.
C9_Witness ==
    /\ IsObject /\ EnforcerReturned
    /\ Trans.t = "dict" /\ Get(Trans, "rekor_url", Absent) = JNum(5)
    /\ Len(WalkedSigs) = 2
    /\ Get(WalkedSigs[1], "signer", Absent) = JNum(5)
    /\ problems = << "signatures[1].signer must use placeholder KMS: 'arn:aws:kms:us-east-1:key/abc'" >>

\* C10: a run without --policy whose receipt file exists and parses never
\* ends by an exception; it ends done, with exit status 0 or 1 and exactly
\* one report printed.
C10_AlwaysReports ==
    (args.policy = NoPolicy /\ fs.receipt.exists /\ fs.receipt.load.ok) =>
        /\ pc # "raised"
        /\ Terminal =>
            /\ pc = "done" /\ status \in {0, 1}
            /\ Cardinality({i \in 1..Len(calls) : calls[i] \in {"_print_json", "_print_markdown"}}) = 1

=============================================================================
